---- MODULE Spec2Model ----
(***************************************************************************)
(* Model of the Cool Shot AI Telegram bot (src/mvai.js): the chat branch   *)
(* of the bot.on('text') handler (primary provider loop, Gemini fallback,  *)
(* final fallback message), the brand-rule replace chains and              *)
(* escapeMarkdownV2.                                                       *)
(*                                                                         *)
(* Texts are sequences of chunks.  A chunk is a piece of a JavaScript      *)
(* string that every regular expression of the handler treats as a unit:   *)
(* a whole phrase that a pattern names, or a single character that a       *)
(* character class names.  Phrases that contain a character of a class     *)
(* that can be applied to them are split at that character, and phrases   *)
(* that contain another phrase are split around it (see Trigger, Rule3Rep).*)
(***************************************************************************)
EXTENDS Naturals, Sequences, FiniteSets

\* ------------------------------------------------------------- bounds
\* Longest provider text of the pipeline specification, in atoms.
MaxLen == 2
\* Longest input of the sanitizer specification, in atoms.
SanLen == 3

\* ------------------------------------------------------------- chunks
BACKSLASH == "\\"
NEWLINE == "\n"
SPACE == " "
DOT == "."
\* U+201C / U+201D, the curly double quotes of the last primary rule.
LDQUO == "[U+201C]"
RDQUO == "[U+201D]"

\* s with every chunk sequence of ss appended in order.
RECURSIVE Flatten(_)
Flatten(ss) ==
  IF Len(ss) = 0 THEN <<>> ELSE Head(ss) \o Flatten(Tail(ss))

\* /i flag: the case variants of the model's alphabet fold to one form.
CaseFold(c) ==
  CASE c = "CHATGPT" -> "ChatGPT"
    [] c = "N" -> "n"
    [] OTHER -> c

\* pat occurs in s at position i (exact, as String.prototype.includes).
OccursAt(s, i, pat) ==
  /\ i + Len(pat) - 1 <= Len(s)
  /\ \A k \in 1..Len(pat) : s[i + k - 1] = pat[k]

\* pat matches in s at position i under the /i flag.
MatchesAt(s, i, pat) ==
  /\ i + Len(pat) - 1 <= Len(s)
  /\ \A k \in 1..Len(pat) : CaseFold(s[i + k - 1]) = CaseFold(pat[k])

\* String.prototype.includes
Includes(s, pat) == \E i \in 1..Len(s) : OccursAt(s, i, pat)

\* s.replace(/alt1|alt2|.../gi, rep): leftmost match first, the alternatives
\* tried in the order written, the scan resuming after each match.
RECURSIVE ReplaceFrom(_, _, _, _)
ReplaceFrom(s, i, alts, rep) ==
  IF i > Len(s) THEN <<>>
  ELSE LET hits == {k \in 1..Len(alts) : MatchesAt(s, i, alts[k])}
       IN IF hits = {} THEN <<s[i]>> \o ReplaceFrom(s, i + 1, alts, rep)
          ELSE LET k == CHOOSE h \in hits : \A g \in hits : h <= g
               IN rep \o ReplaceFrom(s, i + Len(alts[k]), alts, rep)

ReplaceAll(s, alts, rep) == ReplaceFrom(s, 1, alts, rep)

\* Some alternative of alts matches somewhere in s.
MatchesAny(s, alts) ==
  \E i \in 1..Len(s) : \E k \in 1..Len(alts) : MatchesAt(s, i, alts[k])

\* ------------------------------------------------------------- escapeMarkdownV2
Reserved ==
  {"_", "*", "[", "]", "(", ")", "~", "[backtick]", ">", "#", "+", "=", "|", "{", "}",
   ".", "!", "-"}

\* Variant: the replacement string without its $1.
EscapedNoCapture(c) == IF c \in Reserved THEN <<BACKSLASH>> ELSE <<c>>

\* What one character becomes: '\\$1' for a match of the class, else itself.
Escaped(c) == IF c \in Reserved THEN <<BACKSLASH, c>> ELSE <<c>>

RECURSIVE escapeMarkdownV2(_)
escapeMarkdownV2(text) ==
  IF Len(text) = 0 THEN <<>>
  ELSE Escaped(Head(text)) \o escapeMarkdownV2(Tail(text))

\* ------------------------------------------------------------- primary brand rules
Rule1Alts ==
  << <<"Prof-Tech MVAI">>, <<"Gifted", "AI">>, <<"Gifted", SPACE, "AI">>,
     <<"ChatGPT">>, <<"GiftedTech">>, <<"OpenAI">> >>
Rule1Rep == <<"Cool Shot AI">>

Rule2Alts == << <<"Cool Shot Designs/Tech">> >>
Rule2Rep == <<"Cool Shot Systems">>

Rule3Alts ==
  << <<"I'm an AI language model">>, <<"I[U+2019]m an AI language model">>,
     <<"I[backtick]m an AI language model">>, <<"Im an AI language model">> >>
\* "I'm Cool Shot AI, your intelligent assistant", split around the brand
\* name and at its letters n.
Rule3Rep ==
  <<"I'm ", "Cool Shot AI", ", your i", "n", "tellige", "n", "t assista",
    "n", "t">>

\* The class [\\.\\n] of a regex literal: backslash, period, the letter n.
Rule4Stops == {BACKSLASH, DOT, "n"}
Rule4Head == "I was created by"
Rule4Rep == <<"I was created by", SPACE, "Cool Shot Systems", DOT, NEWLINE>>

\* The end of the match of /I was created by.*?[\\.\\n]/i that starts at i:
\* the first chunk of the class after i with no line terminator before it
\* (the dot matches none), or 0 when there is no match at i.
Rule4End(s, i) ==
  LET ends == {j \in (i + 1)..Len(s) :
                 /\ CaseFold(s[j]) \in Rule4Stops
                 /\ \A k \in (i + 1)..(j - 1) : s[k] # NEWLINE}
  IN IF CaseFold(s[i]) # Rule4Head \/ ends = {} THEN 0
     ELSE CHOOSE j \in ends : \A h \in ends : j <= h

\* The end of the match of the earlier variant's /I was created by.*?[\.\n]/i
\* that starts at i: the first period or line feed after i, or 0.
LegacyRule4End(s, i) ==
  LET ends == {j \in (i + 1)..Len(s) :
                 /\ s[j] \in {DOT, NEWLINE}
                 /\ \A k \in (i + 1)..(j - 1) : s[k] # NEWLINE}
  IN IF CaseFold(s[i]) # Rule4Head \/ ends = {} THEN 0
     ELSE CHOOSE j \in ends : \A h \in ends : j <= h

RECURSIVE Rule4From(_, _)
Rule4From(s, i) ==
  IF i > Len(s) THEN <<>>
  ELSE IF Rule4End(s, i) = 0 THEN <<s[i]>> \o Rule4From(s, i + 1)
       ELSE Rule4Rep \o Rule4From(s, Rule4End(s, i) + 1)

Rule4(s) == Rule4From(s, 1)

Rule4Matches(s) == \E i \in 1..Len(s) : Rule4End(s, i) # 0

\* /[U+201C U+201D]/g -> '"' (no /i flag; the quotes have no case).
Rule5Alts == << <<LDQUO>>, <<RDQUO>> >>
Rule5Rep == <<"[quot]">>

\* The replace chain of the primary loop, in source order.
SanitizePrimary(t) ==
  ReplaceAll(Rule4(ReplaceAll(ReplaceAll(ReplaceAll(t, Rule1Alts, Rule1Rep),
                                         Rule2Alts, Rule2Rep),
                              Rule3Alts, Rule3Rep)),
             Rule5Alts, Rule5Rep)

\* ------------------------------------------------------------- Gemini brand rules
\* The chain inside callGeminiAPI.
G1Alts ==
  << <<"Google">>, <<"Gemini">>, <<"Bard">>, <<"I'm an AI assistant">>,
     <<"I'm a large language model">> >>
G1Rep == <<"I'm ", "Cool Shot AI">>

G2Alts ==
  << <<"I was created by", SPACE, "Google">>,
     <<"I was developed by", SPACE, "Google">>,
     <<"I was made by", SPACE, "Google">>,
     <<"I was built by", SPACE, "Google">> >>
G2Rep == <<"I was created by", SPACE, "Cool Shot Systems">>

G3Alts ==
  << <<"Google", SPACE, "AI">>, <<"Google", "'s", SPACE, "AI">>,
     <<"Gemini", SPACE, "AI">> >>
G3Rep == <<"Cool Shot AI">>

G4Alts == << <<"I'm here to help">> >>
G4Rep == <<"I'm ", "Cool Shot AI", ", here to help">>

\* The chain of the handler's Gemini branch.
H1Alts == << <<"Google">>, <<"Gemini">>, <<"Bard">> >>
H1Rep == <<"Cool Shot AI">>

H2Alts == << <<"I'm an AI assistant">>, <<"I'm a large language model">> >>

\* /[""]/g -> '"': both characters of the class are the straight quote.
H5Alts == << <<"[quot]">> >>

IsSpace(c) == c \in {SPACE, NEWLINE}

\* String.prototype.trim
RECURSIVE TrimLeft(_)
TrimLeft(s) ==
  IF Len(s) = 0 THEN <<>>
  ELSE IF IsSpace(Head(s)) THEN TrimLeft(Tail(s)) ELSE s

RECURSIVE TrimRight(_)
TrimRight(s) ==
  IF Len(s) = 0 THEN <<>>
  ELSE IF IsSpace(s[Len(s)]) THEN TrimRight(SubSeq(s, 1, Len(s) - 1)) ELSE s

Trim(s) == TrimRight(TrimLeft(s))

GeminiInnerChain(t) ==
  Trim(ReplaceAll(ReplaceAll(ReplaceAll(ReplaceAll(t, G1Alts, G1Rep),
                                        G2Alts, G2Rep),
                             G3Alts, G3Rep),
                  G4Alts, G4Rep))

\* callGeminiAPI once generateContent has returned the text t: the result,
\* or a throw ('Empty response from Gemini') for an empty or blank text.
callGeminiAPI(t) ==
  IF Trim(t) = <<>> THEN [threw |-> TRUE, result |-> <<>>]
  ELSE [threw |-> FALSE, result |-> GeminiInnerChain(t)]

SanitizeGemini(t) ==
  ReplaceAll(ReplaceAll(ReplaceAll(ReplaceAll(ReplaceAll(t, H1Alts, H1Rep),
                                                H2Alts, Rule3Rep),
                                    G2Alts, G2Rep),
                         G3Alts, G3Rep),
             H5Alts, Rule5Rep)

\* ------------------------------------------------------------- messages
\* The phrase both includes() tests look for (straight apostrophe), split
\* at its letters n.
Trigger == <<"Sorry, I could", "n", "'t ge", "n", "erate a reply">>

\* The initial value of response (curly apostrophe, U+2019).
Placeholder ==
  <<"[robot] ", "Sorry, I could", "n", "[U+2019]t ge", "n", "erate a reply", DOT>>

roles == {"Mathematician", "Econometician", "Doctor", "Brain Master", "Physicist"}

languages ==
  [en |-> "[GB] English", fr |-> "[FR] French", es |-> "[ES] Spanish"]

RoleLabel(role) == IF role \in roles THEN role ELSE "Brain Master"

\* Variant: the code itself where no entry matches, as in the confirmation
\* of the lang_ callback.
LangLabelOrCode(lang) ==
  IF lang \in DOMAIN languages THEN languages[lang] ELSE lang

LangLabel(lang) ==
  IF lang \in DOMAIN languages THEN languages[lang] ELSE "[GB] English"

\* toLocaleTimeString(...): one clock reading stands for all.
Time == "[HH:MM]"

\* The two header lines around the (escaped) role and language labels; the
\* markup characters of the template literals stand as written.
HeaderOf(roleChunks, langChunks) ==
  <<"[robot] ", "*", "Cool Shot AI", "*", " \\| ", "*">> \o roleChunks
    \o <<"*", "\\n[globe] ">> \o langChunks
    \o <<" \\| [clock] ", Time, "\\n\\n">>

Header(role, lang) ==
  HeaderOf(escapeMarkdownV2(<<RoleLabel(role)>>),
           escapeMarkdownV2(<<LangLabel(lang)>>))

Tagline == <<"\\n\\n[sparkles] ", "_", "Powered by Cool Shot Systems", "_">>

\* The template literal of response: header, body, closing line.
Compose(roleChunks, langChunks, body) ==
  HeaderOf(roleChunks, langChunks) \o body \o Tagline

\* The response built from an escaped, sanitized body.
FormatResponse(role, lang, cleaned) == Header(role, lang) \o cleaned \o Tagline

ApologyBody ==
  <<"[warning] I'm currently experiencing technical difficulties with my AI processing\\. Please try again in a moment\\!\\n\\n",
    "[bulb] In the meantime, you can:\\n",
    "[bullet] Use /games for entertainment\\n",
    "[bullet] Use /tools for text utilities\\n",
    "[bullet] Use /help for command list\\n\\n",
    "[sparkles] _Cool Shot Systems \\- Always here to help_">>

Apology(role, lang) == Header(role, lang) \o ApologyBody

\* ------------------------------------------------------------- the chat pipeline
\* aiAPIs.length
NumAPIs == 5

VARIABLES
  pc,           \* where the text handler of the current message stands
  text,         \* ctx.message.text
  role,         \* userRoles[userId] || 'Brain Master'
  lang,         \* userLanguages[userId] || 'en'
  geminiAI,     \* whether GOOGLE_API_KEY made geminiAI non-null
  i,            \* position of the for loop in aiAPIs
  response,     \* the handler's local variable response
  status,       \* per primary endpoint: "notcalled", "failed", "ok"
  lastKind,     \* what the last primary call produced
  okText,       \* data.result of the primary call that succeeded
  sanitized,    \* the text the last replace chain produced, before escaping
  prompt,       \* the q parameter of the last primary call
  geminiCalls,  \* calls of callGeminiAPI for this message
  geminiKind,   \* "notcalled", "throw", "empty", "ok"
  geminiText,   \* the text generateContent returned
  sent          \* replies sent for this message, in order

pipeVars ==
  <<pc, text, role, lang, geminiAI, i, response, status, lastKind, okText,
    sanitized, prompt, geminiCalls, geminiKind, geminiText, sent>>

VARIABLES
  sanPc,        \* "off", "input", "once", "twice"
  sanChain,     \* which replace chain is applied: "primary", "gemini"
  sanIn,        \* the provider text
  sanOnce,      \* the chain applied to sanIn
  sanTwice      \* the chain applied to sanOnce

sanVars == <<sanPc, sanChain, sanIn, sanOnce, sanTwice>>

VARIABLES
  escPc,        \* "off", "input", "escaped"
  escIn,        \* the text given to escapeMarkdownV2
  escOut        \* what escapeMarkdownV2 returned

escVars == <<escPc, escIn, escOut>>

VARIABLES
  userRoles,     \* userRoles: per user the chosen role, "" for no entry
  userLanguages, \* userLanguages: per user the chosen code, "" for no entry
  reqPc,         \* per user, where the text handler of their message stands
  reqRole,       \* per user, the handler's const role
  reqLang,       \* per user, the handler's const lang
  reqStart,      \* per user, <<role, language>> stored when the handler began
  meanwhile      \* per user, who changed a selection while the handler ran

concVars ==
  <<userRoles, userLanguages, reqPc, reqRole, reqLang, reqStart, meanwhile>>

VARIABLES
  users,         \* users: per id "absent", "user" (isAdmin false), "admin"
  fileExists,    \* whether users.json exists
  file,          \* the content of users.json, as users
  USER_IDS,      \* the Set of ids the broadcast goes to
  supportState,  \* supportState: per id the support flag
  initPc,        \* initializeAdminSystem: "boot", "reading", "loaded", "done"
  loaded,        \* what readJson has read of users.json, not yet assigned
  by,            \* ctx.from.id of the last update, "" for a startup step
  reply,         \* what the handler of the last update replied
  outbox,        \* ids bot.telegram.sendMessage was called for in that step
  lastGrant      \* <<id, status>> of the last successful promote or demote

botVars ==
  <<users, fileExists, file, USER_IDS, supportState, initPc, loaded, by,
    reply, outbox, lastGrant>>

\* The stored selection behind a reply header, and the header.
VARIABLES
  lblRole,        \* userRoles[userId], "" when there is no entry
  lblLang,        \* userLanguages[userId], "" when there is no entry
  hdr             \* the header of the last reply, <<>> before the first

lblVars == <<lblRole, lblLang, hdr>>

\* The usage counters and analytics.json.
VARIABLES
  analytics,      \* commandStats, userActivity, totalMessages, totalCommands
  anFile          \* the content of analytics.json, "none" while there is none

anVars == <<analytics, anFile>>

\* The HTTP front of the Python model (server.js).
VARIABLES
  srvUp,          \* the Node process is running
  srvPc,          \* per request: "none", "refused", "running", "closed", "lost"
  srvOut,         \* per request: output, the stdout data so far
  srvCode,        \* per request: the code of the close event, "" before it
  srvResp         \* per request: the responses sent, in order

srvVars == <<srvUp, srvPc, srvOut, srvCode, srvResp>>

\* The bot with admins configured through the environment (part_002).
VARIABLES
  envAdminIds,          \* process.env.ADMIN_IDS split at the commas
  envAdminUsernames,    \* process.env.ADMIN_USERNAMES split at the commas
  envGithub,            \* process.env.GITHUB_ADMIN_MAPPING
  ADMIN_IDS,
  ADMIN_USERNAMES,
  USERNAME_TO_ID_CACHE,
  envUserIds,           \* USER_IDS of this variant
  envSupport,           \* supportState of this variant
  envReply,             \* what the last update was answered with
  envOutbox             \* the messages the last update sent to others

envVars ==
  <<envAdminIds, envAdminUsernames, envGithub, ADMIN_IDS, ADMIN_USERNAMES,
    USERNAME_TO_ID_CACHE, envUserIds, envSupport, envReply, envOutbox>>

moreVars == <<lblVars, anVars, srvVars, envVars>>

extVars == <<escVars, concVars, botVars, moreVars>>

vars == <<pipeVars, sanVars, extVars>>

\* All texts of 1..n atoms, an atom being a chunk sequence.
Texts(atoms, n) ==
  {Flatten(f) : f \in UNION {[1..k -> atoms] : k \in 1..n}}

PrimaryAtoms ==
  {<<"ChatGPT">>, Trigger, <<"I was created by">>, <<DOT>>}
PrimaryTexts == Texts(PrimaryAtoms, MaxLen)

GeminiAtoms == {<<"Gemini">>, Trigger, <<SPACE>>}
GeminiTexts == {<<>>} \cup Texts(GeminiAtoms, MaxLen)

\* Message texts: empty, plain, a command.
RequestTexts == {<<>>, <<"hi">>, <<"/", "help">>}

\* Stored (role, language) of the sender; "" stands for no entry.
Settings == {<<"", "">>, <<"Doctor", "fr">>}

\* What one axios.get can produce: a rejection (network error, timeout,
\* non-2xx), a body without result, result "", a truthy result that is no
\* string, a non-empty string.
PrimaryKinds == {"throw", "noresult", "empty", "nonstring", "text"}

NoStatus == [k \in 1..NumAPIs |-> "notcalled"]

PipeInit ==
  /\ pc = "idle"
  /\ text = <<>>
  /\ role = "Brain Master"
  /\ lang = "en"
  /\ geminiAI \in BOOLEAN
  /\ i = 0
  /\ response = <<>>
  /\ status = NoStatus
  /\ lastKind = "none"
  /\ okText = <<>>
  /\ sanitized = <<>>
  /\ prompt = <<>>
  /\ geminiCalls = 0
  /\ geminiKind = "notcalled"
  /\ geminiText = <<>>
  /\ sent = <<>>

\* text.startsWith('/')
IsCommand(t) == Len(t) > 0 /\ t[1] = "/"

\* Variant: an empty text is answered at once, no provider is called.
DispatchEmptyFirst(t) ==
  IF Len(t) = 0 THEN "done" ELSE IF IsCommand(t) THEN "next" ELSE "typing"

\* Where the handler goes with the text t once the support, /support and
\* /broadcast branches are passed: to the command handlers, or on to the
\* chat response.
Dispatch(t) == IF IsCommand(t) THEN "next" ELSE "typing"

\* A text message arrives while no handler runs (the previous one ended by
\* replying, by passing to the command handlers or by throwing).
Receive(t, st) ==
  /\ pc \in {"idle", "done", "next", "threw"}
  /\ pc' = Dispatch(t)
  /\ text' = t
  /\ role' = (IF st[1] = "" THEN "Brain Master" ELSE st[1])
  /\ lang' = (IF st[2] = "" THEN "en" ELSE st[2])
  /\ i' = 0
  /\ response' = <<>>
  /\ status' = NoStatus
  /\ lastKind' = "none"
  /\ okText' = <<>>
  /\ sanitized' = <<>>
  /\ prompt' = <<>>
  /\ geminiCalls' = 0
  /\ geminiKind' = "notcalled"
  /\ geminiText' = <<>>
  /\ sent' = <<>>
  /\ UNCHANGED geminiAI

\* await ctx.sendChatAction('typing'); let response = '...'
SendChatAction(ok) ==
  /\ pc = "typing"
  /\ IF ok
       THEN /\ pc' = "primary"
            /\ i' = 1
            /\ response' = Placeholder
       ELSE /\ pc' = "threw"
            /\ UNCHANGED <<i, response>>
  /\ UNCHANGED <<text, role, lang, geminiAI, status, lastKind, okText,
                 sanitized, prompt, geminiCalls, geminiKind, geminiText, sent>>

\* Variant: if (data.result !== undefined), an empty string counts as a result.
HasResultField(kind) == kind \in {"empty", "nonstring", "text"}

\* if (data.result): the truthiness of the result field.
HasResult(kind) == kind \in {"nonstring", "text"}

\* Whether the call throws inside the try block: axios.get rejects, or
\* data.result is truthy and has no replace method.
Throws(kind) == kind = "throw" \/ (HasResult(kind) /\ kind = "nonstring")

\* Variant: the loop is left after the first endpoint, whatever it gave.
LoopBreaks(idx) == "fallback"

\* Variant: the loop has no upper limit and goes round again.
LoopAgain(idx) == "primary"

\* The for loop moves on: the next endpoint, or the code after the loop.
LoopNext(idx) == IF idx = NumAPIs THEN "fallback" ELSE "primary"

\* Variant: no try/catch around the call, the error leaves the handler.
CatchRethrows(idx) == "threw"

\* catch (err) { console.error(...) }: the loop moves on.
CatchNext(idx) == LoopNext(idx)

\* Variant: the result is escaped first, the brand rules run on escaped text.
CleanPrimaryEscapeFirst(t) == SanitizePrimary(escapeMarkdownV2(t))

\* const cleaned = escapeMarkdownV2(data.result.replace(...)...)
CleanPrimary(t) == escapeMarkdownV2(SanitizePrimary(t))

\* const cleaned = escapeMarkdownV2(geminiResponse.result.replace(...)...)
CleanGemini(r) == escapeMarkdownV2(SanitizeGemini(r))

\* One iteration of the for loop, the console.error aside: the call of
\* aiAPIs[i] with outcome kind (and result t) and what follows.
PrimaryIteration(kind, t) ==
  /\ pc = "primary"
  /\ prompt' = <<role, ": ">> \o text
  /\ IF ~Throws(kind) /\ HasResult(kind)
       THEN /\ sanitized' = SanitizePrimary(t)
            /\ response' = FormatResponse(role, lang, CleanPrimary(t))
            /\ okText' = t
            /\ status' = [status EXCEPT ![i] = "ok"]
            /\ pc' = "fallback"
            /\ UNCHANGED i
       ELSE /\ status' = [status EXCEPT ![i] = "failed"]
            /\ pc' = (IF Throws(kind) THEN CatchNext(i) ELSE LoopNext(i))
            /\ i' = i + 1
            /\ UNCHANGED <<sanitized, response, okText>>
  /\ UNCHANGED <<text, role, lang, geminiAI, geminiCalls, geminiKind,
                 geminiText, sent>>

CallPrimary(kind, t) ==
  /\ kind = "text" <=> t # <<>>
  /\ PrimaryIteration(kind, t)
  /\ lastKind' = kind

\* response.includes("Sorry, I couldn't generate a reply") && geminiAI
GeminiWanted(resp, configured) == Includes(resp, Trigger) /\ configured

\* response.includes("Sorry, I couldn't generate a reply")
NeedsApology(resp) == Includes(resp, Trigger)

\* The Gemini fallback block: callGeminiAPI and the handler's use of its
\* result.  kind "throw": generateContent rejects; "text": it returns t.
CallGemini(kind, t) ==
  /\ pc = "fallback"
  /\ GeminiWanted(response, geminiAI)
  /\ kind = "throw" => t = <<>>
  /\ geminiCalls' = geminiCalls + 1
  /\ geminiText' = t
  /\ pc' = "final"
  /\ IF kind = "throw" \/ callGeminiAPI(t).threw
       THEN /\ geminiKind' = (IF kind = "throw" THEN "throw" ELSE "empty")
            /\ UNCHANGED <<response, sanitized>>
       ELSE /\ geminiKind' = "ok"
            /\ sanitized' = SanitizeGemini(callGeminiAPI(t).result)
            /\ response' =
                 FormatResponse(role, lang, CleanGemini(callGeminiAPI(t).result))
  /\ UNCHANGED <<text, role, lang, geminiAI, i, status, lastKind, okText,
                 prompt, sent>>

\* The last block and the reply: the fallback message replaces response if
\* the phrase is still in it; ctx.replyWithMarkdownV2(response).
\* Variant: the reply is sent where it is built and again at the end.
ReplyAgain(s, r) == Append(Append(s, r), r)

\* ctx.replyWithMarkdownV2(response)
Reply(s, r) == Append(s, r)

Finish ==
  /\ \/ pc = "final"
     \/ pc = "fallback" /\ ~GeminiWanted(response, geminiAI)
  /\ response' = (IF NeedsApology(response) THEN Apology(role, lang)
                  ELSE response)
  /\ sent' = Reply(sent, response')
  /\ pc' = "done"
  /\ UNCHANGED <<text, role, lang, geminiAI, i, status, lastKind, okText,
                 sanitized, prompt, geminiCalls, geminiKind, geminiText>>

SanOff ==
  /\ sanPc = "off"
  /\ sanChain = "primary"
  /\ sanIn = <<>>
  /\ sanOnce = <<>>
  /\ sanTwice = <<>>

EscOff ==
  /\ escPc = "off"
  /\ escIn = <<>>
  /\ escOut = <<>>

\* Two users, as many as an interference needs.
ChatUsers == {"A", "B"}

ConcOff ==
  /\ userRoles = [u \in ChatUsers |-> ""]
  /\ userLanguages = [u \in ChatUsers |-> ""]
  /\ reqPc = [u \in ChatUsers |-> "idle"]
  /\ reqRole = [u \in ChatUsers |-> ""]
  /\ reqLang = [u \in ChatUsers |-> ""]
  /\ reqStart = [u \in ChatUsers |-> <<"", "">>]
  /\ meanwhile = [u \in ChatUsers |-> {}]

\* The id as the key of users: userId.toString().
RAYBEN_ID == "6649936329"

\* Two more Telegram users.
OtherIds == {"1001", "1002"}
Ids == {RAYBEN_ID} \cup OtherIds

NoUsers == [id \in Ids |-> "absent"]

\* The process has started and the server listens; users.json is that of a
\* first deployment (none).
BotOff ==
  /\ users = NoUsers
  /\ fileExists = FALSE
  /\ file = NoUsers
  /\ USER_IDS = {}
  /\ supportState = [id \in Ids |-> FALSE]
  /\ initPc = "boot"
  /\ loaded = NoUsers
  /\ by = ""
  /\ reply = ""
  /\ outbox = {}
  /\ lastGrant = <<"", "">>

LblOff ==
  /\ lblRole = ""
  /\ lblLang = ""
  /\ hdr = <<>>

\* let analytics = { commandStats: {}, userActivity: {}, totalMessages: 0,
\* totalCommands: 0 }; an object with no keys is the function on {}.
NoAnalytics ==
  [commandStats |-> <<>>, userActivity |-> <<>>,
   totalMessages |-> 0, totalCommands |-> 0]

AnOff ==
  /\ analytics = NoAnalytics
  /\ anFile = "none"

Requests == {"r1", "r2"}

SrvOff ==
  /\ srvUp = TRUE
  /\ srvPc = [r \in Requests |-> "none"]
  /\ srvOut = [r \in Requests |-> <<>>]
  /\ srvCode = [r \in Requests |-> ""]
  /\ srvResp = [r \in Requests |-> <<>>]

EnvIds == {"1001", "1002", "1003"}

EnvOff ==
  /\ envAdminIds = <<>>
  /\ envAdminUsernames = <<>>
  /\ envGithub = ""
  /\ ADMIN_IDS = {}
  /\ ADMIN_USERNAMES = {}
  /\ USERNAME_TO_ID_CACHE = <<>>
  /\ envUserIds = {}
  /\ envSupport = [u \in EnvIds |-> FALSE]
  /\ envReply = <<>>
  /\ envOutbox = {}

MoreOff == LblOff /\ AnOff /\ SrvOff /\ EnvOff

ExtOff == EscOff /\ ConcOff /\ BotOff /\ MoreOff

Init == PipeInit /\ SanOff /\ ExtOff

Next ==
  /\ \/ \E t \in RequestTexts, st \in Settings : Receive(t, st)
     \/ \E ok \in BOOLEAN : SendChatAction(ok)
     \/ \E kind \in PrimaryKinds, t \in PrimaryTexts \cup {<<>>} :
          CallPrimary(kind, t)
     \/ \E kind \in {"throw", "text"}, t \in GeminiTexts : CallGemini(kind, t)
     \/ Finish
  /\ UNCHANGED <<sanVars, extVars>>

Spec == Init /\ [][Next]_vars

\* ------------------------------------------------------------- the replace chains alone
\* The text a Gemini reply goes through before escaping: the chain inside
\* callGeminiAPI, then the chain of the handler's Gemini branch.
GeminiSanitize(t) == SanitizeGemini(GeminiInnerChain(t))

Sanitize(chain, t) ==
  IF chain = "primary" THEN SanitizePrimary(t) ELSE GeminiSanitize(t)

SanPrimaryAtoms ==
  {<<"ChatGPT">>, <<"CHATGPT">>, <<"Cool Shot Designs/Tech">>,
   <<"I'm an AI language model">>, <<"I was created by">>, <<DOT>>, <<"n">>,
   <<BACKSLASH>>, <<NEWLINE>>, <<LDQUO>>, <<"Acme">>}

SanGeminiAtoms ==
  {<<"Google">>, <<"Gemini">>, <<"I'm an AI assistant">>,
   <<"I was created by">>, <<SPACE>>, <<"AI">>, <<"'s">>,
   <<"I'm here to help">>, <<"Hello">>}

\* The texts a provider result can be: non-empty for a primary, not blank
\* for Gemini (callGeminiAPI throws on a blank text).
SanInputs(chain) ==
  IF chain = "primary" THEN Texts(SanPrimaryAtoms, SanLen)
  ELSE {t \in Texts(SanGeminiAtoms, SanLen) : Trim(t) # <<>>}

SanInit ==
  /\ PipeInit
  /\ ExtOff
  /\ geminiAI = TRUE
  /\ sanPc = "input"
  /\ sanChain \in {"primary", "gemini"}
  /\ sanIn \in SanInputs(sanChain)
  /\ sanOnce = <<>>
  /\ sanTwice = <<>>

\* The chain is applied to the provider text.
SanApply ==
  /\ sanPc = "input"
  /\ sanOnce' = Sanitize(sanChain, sanIn)
  /\ sanPc' = "once"
  /\ UNCHANGED <<sanChain, sanIn, sanTwice>>

\* The chain is applied again, to its own output.
SanReapply ==
  /\ sanPc = "once"
  /\ sanTwice' = Sanitize(sanChain, sanOnce)
  /\ sanPc' = "twice"
  /\ UNCHANGED <<sanChain, sanIn, sanOnce>>

SanNext ==
  /\ \/ SanApply
     \/ SanReapply
  /\ UNCHANGED <<pipeVars, extVars>>

SanSpec == SanInit /\ [][SanNext]_vars

\* ------------------------------------------------------------- the claims
AllPrimariesFailed == \A k \in 1..NumAPIs : status[k] = "failed"
SomePrimaryOk == \E k \in 1..NumAPIs : status[k] = "ok"

\* The reply the handler builds from the primary result t.
PrimaryReply(t) ==
  FormatResponse(role, lang, escapeMarkdownV2(SanitizePrimary(t)))

\* The reply the handler builds from the Gemini text t.
GeminiReply(t) ==
  FormatResponse(role, lang,
                 escapeMarkdownV2(SanitizeGemini(callGeminiAPI(t).result)))

\* C1: when every primary provider failed and the secondary provider is
\* configured, the secondary provider is called exactly once for the request,
\* and if it returned non-empty text the rebranded text is the reply.
C1_SecondaryCalledOnce ==
  (pc = "done" /\ AllPrimariesFailed /\ geminiAI) =>
    /\ geminiCalls = 1
    /\ geminiKind = "ok" => sent = <<GeminiReply(geminiText)>>

\* C2: when some primary provider returned a non-empty result, the reply is
\* built from the first such provider in list order and no later provider of
\* the list was called.
C2_FirstSuccessIsTheReply ==
  (pc = "done" /\ SomePrimaryOk) =>
    /\ sent = <<PrimaryReply(okText)>>
    /\ \A k \in 1..NumAPIs :
         /\ k < i => status[k] = "failed"
         /\ k > i => status[k] = "notcalled"

\* C3: when all primary providers and the secondary provider failed, the
\* reply is exactly the apology template under the role/language header, not
\* the initial placeholder.
C3_ApologyOnExhaustion ==
  (pc = "done" /\ AllPrimariesFailed /\ geminiKind # "ok") =>
    sent = <<Apology(role, lang)>>

\* C4: the secondary provider is called only if every primary provider
\* failed; when a primary provider returned a non-empty result, whatever its
\* text, the secondary is not called and the reply is the one built from that
\* result, never the apology.
C4_SecondaryOnlyAfterAllFailed ==
  /\ geminiCalls > 0 => AllPrimariesFailed
  /\ (pc = "done" /\ SomePrimaryOk) =>
       /\ geminiCalls = 0
       /\ sent # <<Apology(role, lang)>>
       /\ sent = <<PrimaryReply(okText)>>

\* C5: when all primary providers failed and no secondary provider is
\* configured, no exception leaves the handler, the handler can finish, and
\* it finishes by sending one fixed failure payload (the placeholder).
C5_FixedFailurePayload ==
  (AllPrimariesFailed /\ ~geminiAI) =>
    /\ pc \in {"fallback", "done"}
    /\ pc = "fallback" => ENABLED Finish
    /\ pc = "done" => sent = <<Placeholder>>

C5_Witness ==
  pc = "done" /\ AllPrimariesFailed /\ ~geminiAI /\ sent = <<Placeholder>>

\* A step of the loop in which the endpoint at position i failed.
PrimaryFailStep == pc = "primary" /\ status'[i] = "failed"

\* C6: a failure of primary provider i (exception, timeout, non-2xx, a
\* result the sanitizer cannot process) does not abort the request: the
\* failing step sends nothing, leaves response as it was and goes on to
\* provider i+1 (to the code after the loop when i is the last); no state
\* with a failed provider is an escaped exception; and when a later provider
\* succeeds, the response the loop leaves is the one built from that
\* provider's result, and the placeholder is not what the user is sent.
C6_FailureIsolated ==
  /\ [][PrimaryFailStep =>
          /\ pc' = (IF i < NumAPIs THEN "primary" ELSE "fallback")
          /\ i' = i + 1
          /\ response' = response
          /\ sent' = sent]_vars
  /\ []((\E k \in 1..NumAPIs : status[k] = "failed") => pc # "threw")
  /\ []((pc = "fallback" /\ SomePrimaryOk /\ status[1] = "failed") =>
          response = PrimaryReply(okText))
  /\ []((pc = "done" /\ SomePrimaryOk /\ status[1] = "failed") =>
          sent # <<Placeholder>>)

C6_Witness ==
  /\ pc = "done"
  /\ status[1] = "failed" /\ status[2] = "failed" /\ status[3] = "ok"
  /\ sent = <<PrimaryReply(okText)>>

\* C7: a primary response without a result field, or with an empty result,
\* changes the state exactly as a network failure of that provider does (the
\* log line aside): the next provider in order is tried, and since the rest
\* of the handler reads only this state, the final reply is the same.
C7_NoResultIsAFailure ==
  [][(pc = "primary" /\ lastKind' \in {"noresult", "empty"}) =>
       PrimaryIteration("throw", <<>>)]_vars

C7_Witness ==
  /\ pc = "primary"
  /\ i = 2
  /\ status[1] = "failed"
  /\ lastKind \in {"noresult", "empty"}

\* C8 as stated: a request whose raw text is empty is answered without any
\* provider, primary or secondary, being called.
C8_EmptyTextShortCircuits ==
  (pc = "done" /\ text = <<>>) =>
    /\ \A k \in 1..NumAPIs : status[k] = "notcalled"
    /\ geminiCalls = 0

\* C8 amended: an empty raw text is not special-cased; it takes the chat
\* path of any text that is no command: the first primary provider is called
\* with the prompt "<role>: " and nothing after it, and the reply is built
\* from a provider result or is a failure message of the handler.
C8_EmptyTextReachesProviders ==
  (text = <<>> /\ pc \in {"fallback", "final", "done"}) =>
    /\ status[1] # "notcalled"
    /\ prompt = <<role, ": ">>
    /\ pc = "done" =>
         \/ sent = <<PrimaryReply(okText)>> /\ SomePrimaryOk
         \/ sent = <<GeminiReply(geminiText)>> /\ geminiKind = "ok"
         \/ sent = <<Placeholder>>
         \/ sent = <<Apology(role, lang)>>

C8_Witness ==
  /\ pc = "done"
  /\ text = <<>>
  /\ status[1] = "ok"
  /\ sent = <<PrimaryReply(okText)>>

\* C9: the primary rule chain is idempotent: applied to its own output it
\* gives that output again.
C9_PrimaryChainIdempotent ==
  (sanPc = "twice" /\ sanChain = "primary") => sanTwice = sanOnce

\* The rules of a chain as (alternatives, replacement) pairs, rule 4 of the
\* primary chain aside.
PrimaryRules ==
  << [alts |-> Rule1Alts, rep |-> Rule1Rep],
     [alts |-> Rule2Alts, rep |-> Rule2Rep],
     [alts |-> Rule3Alts, rep |-> Rule3Rep] >>

GeminiRules ==
  << [alts |-> G1Alts, rep |-> G1Rep],
     [alts |-> G2Alts, rep |-> G2Rep],
     [alts |-> G3Alts, rep |-> G3Rep],
     [alts |-> G4Alts, rep |-> G4Rep],
     [alts |-> H1Alts, rep |-> H1Rep],
     [alts |-> H2Alts, rep |-> Rule3Rep] >>

RulesOf(chain) == IF chain = "primary" THEN PrimaryRules ELSE GeminiRules

\* Some competitor or self-reference pattern of the chain matches in s.
PatternIn(chain, s) ==
  \/ \E r \in 1..Len(RulesOf(chain)) : MatchesAny(s, RulesOf(chain)[r].alts)
  \/ chain = "primary" /\ Rule4Matches(s)

\* C10: for a provider text in which a configured competitor or
\* self-reference pattern matches, no configured pattern matches the
\* sanitized output, and the output contains the canonical replacement of
\* each rule whose pattern matched the input; for both chains.
C10_NoPatternSurvives ==
  (sanPc = "once" /\ PatternIn(sanChain, sanIn)) =>
    /\ ~PatternIn(sanChain, sanOnce)
    /\ \A r \in 1..Len(RulesOf(sanChain)) :
         MatchesAny(sanIn, RulesOf(sanChain)[r].alts) =>
           Includes(sanOnce, RulesOf(sanChain)[r].rep)
    /\ (sanChain = "primary" /\ Rule4Matches(sanIn)) =>
         Includes(sanOnce, Rule4Rep)

\* ------------------------------------------------------------- escaping, in isolation
EscLen == 3

\* A plain character, the backslash, and reserved characters of the class.
EscAtoms == {<<"a">>, <<BACKSLASH>>, <<DOT>>, <<"*">>, <<"_">>, <<"-">>}

EscInit ==
  /\ PipeInit
  /\ SanOff
  /\ ConcOff
  /\ BotOff
  /\ MoreOff
  /\ escPc = "input"
  /\ escIn \in Texts(EscAtoms, EscLen)
  /\ escOut = <<>>

\* escapeMarkdownV2(text)
EscApply ==
  /\ escPc = "input"
  /\ escOut' = escapeMarkdownV2(escIn)
  /\ escPc' = "escaped"
  /\ UNCHANGED escIn

EscNext ==
  EscApply /\ UNCHANGED <<pipeVars, sanVars, concVars, botVars, moreVars>>

EscSpec == EscInit /\ [][EscNext]_vars

\* ------------------------------------------------------------- chat requests of several users
\* The text handlers of different users' messages run interleaved at their
\* awaits; the selections live in the two module-level objects.
RoleChoices == {"Doctor"}
LangChoices == {"fr"}

\* Variant: one entry for everybody instead of one per user id.
SelKeyShared(u) == "A"

\* The key of userRoles and userLanguages: ctx.from.id of the update.
SelKey(u) == u

\* Who is noted as having changed a selection while a handler runs: the
\* user themselves before their handler read the selection, anybody else up
\* to the reply.
Noted(a) ==
  [u \in ChatUsers |->
     IF u = a /\ reqPc[u] = "started" THEN meanwhile[u] \cup {"own"}
     ELSE IF u # a /\ reqPc[u] \in {"started", "read"}
          THEN meanwhile[u] \cup {"other"}
     ELSE meanwhile[u]]

\* callback_query role_<name>: userRoles[userId] = role
CbRole(u, r) ==
  /\ userRoles' = [userRoles EXCEPT ![SelKey(u)] = r]
  /\ meanwhile' = Noted(u)
  /\ UNCHANGED <<userLanguages, reqPc, reqRole, reqLang, reqStart>>

\* callback_query lang_<code>: userLanguages[userId] = lang
CbLang(u, l) ==
  /\ userLanguages' = [userLanguages EXCEPT ![SelKey(u)] = l]
  /\ meanwhile' = Noted(u)
  /\ UNCHANGED <<userRoles, reqPc, reqRole, reqLang, reqStart>>

\* Variant: only the role entry is deleted.
ResetRoleOnly(u) ==
  /\ userRoles' = [userRoles EXCEPT ![SelKey(u)] = ""]
  /\ meanwhile' = Noted(u)
  /\ UNCHANGED <<userLanguages, reqPc, reqRole, reqLang, reqStart>>

\* /reset and callback_query do_reset: both entries deleted
ResetSettings(u) ==
  /\ userRoles' = [userRoles EXCEPT ![SelKey(u)] = ""]
  /\ userLanguages' = [userLanguages EXCEPT ![SelKey(u)] = ""]
  /\ meanwhile' = Noted(u)
  /\ UNCHANGED <<reqPc, reqRole, reqLang, reqStart>>

\* A chat text of u arrives; the handler awaits updateUserInfo, trackMessage.
ChatBegin(u) ==
  /\ reqPc[u] \in {"idle", "replied"}
  /\ reqPc' = [reqPc EXCEPT ![u] = "started"]
  /\ reqStart' = [reqStart EXCEPT ![u] = <<userRoles[u], userLanguages[u]>>]
  /\ meanwhile' = [meanwhile EXCEPT ![u] = {}]
  /\ reqRole' = [reqRole EXCEPT ![u] = ""]
  /\ reqLang' = [reqLang EXCEPT ![u] = ""]
  /\ UNCHANGED <<userRoles, userLanguages>>

\* userRoles[userId] || 'Brain Master'
RoleOr(r) == IF r = "" THEN "Brain Master" ELSE r

\* userLanguages[userId] || 'en'
LangOr(l) == IF l = "" THEN "en" ELSE l

\* const role = ..., const lang = ...; the provider calls are awaited next.
ChatRead(u) ==
  /\ reqPc[u] = "started"
  /\ reqRole' = [reqRole EXCEPT ![u] = RoleOr(userRoles[SelKey(u)])]
  /\ reqLang' = [reqLang EXCEPT ![u] = LangOr(userLanguages[SelKey(u)])]
  /\ reqPc' = [reqPc EXCEPT ![u] = "read"]
  /\ UNCHANGED <<userRoles, userLanguages, reqStart, meanwhile>>

\* The response is built from role and lang and sent.
ChatReply(u) ==
  /\ reqPc[u] = "read"
  /\ reqPc' = [reqPc EXCEPT ![u] = "replied"]
  /\ UNCHANGED <<userRoles, userLanguages, reqRole, reqLang, reqStart,
                 meanwhile>>

ConcInit ==
  /\ PipeInit
  /\ geminiAI = TRUE
  /\ SanOff
  /\ EscOff
  /\ ConcOff
  /\ BotOff
  /\ MoreOff

ConcNext ==
  /\ \E u \in ChatUsers :
       \/ \E r \in RoleChoices : CbRole(u, r)
       \/ \E l \in LangChoices : CbLang(u, l)
       \/ ResetSettings(u)
       \/ ChatBegin(u)
       \/ ChatRead(u)
       \/ ChatReply(u)
  /\ UNCHANGED <<pipeVars, sanVars, escVars, botVars, moreVars>>

ConcSpec == ConcInit /\ [][ConcNext]_vars

\* ------------------------------------------------------------- users, admins, broadcast, support
\* The handlers as far as they touch users, users.json, USER_IDS and
\* supportState.  A text is <<word>> or <<command, user id>>.
BotTexts ==
  {<<"hello">>, <<"/help">>, <<"/broadcast", "hi">>, <<"/support", "hi">>,
   <<"/promote", "1001">>, <<"/demote", "1001">>}

AdminTexts ==
  {<<"hello">>} \cup {<<c, id>> : c \in {"/promote", "/demote"}, id \in Ids}

\* The users object once updateUserInfo(ctx) has run for sender u.
Seen(u) == [users EXCEPT ![u] = IF @ = "absent" THEN "user" ELSE @]

\* Variant: every registered user counts as an admin.
isAdminAnyUser(userId) == users[userId] # "absent"

isAdmin(userId) == users[userId] = "admin"

\* Variant: any admin passes for RayBen445.
isRayBenOrAdmin(userId) == userId = RAYBEN_ID \/ users[userId] = "admin"

isRayBen(userId) == userId = RAYBEN_ID

getAdminIds == {id \in Ids : users[id] = "admin"}

Result(ok, msg) == [success |-> ok, error |-> msg]

\* Variant: the target's entry is not looked at.
promoteToAdminUnchecked(userId, promotedBy) ==
  IF ~isRayBen(promotedBy)
    THEN Result(FALSE, "Only RayBen445 can promote users to admin")
  ELSE Result(TRUE, "")

promoteToAdmin(userId, promotedBy) ==
  IF ~isRayBen(promotedBy)
    THEN Result(FALSE, "Only RayBen445 can promote users to admin")
  ELSE IF Seen(promotedBy)[userId] = "absent"
    THEN Result(FALSE, "User not found in database")
  ELSE IF Seen(promotedBy)[userId] = "admin"
    THEN Result(FALSE, "User is already an admin")
  ELSE Result(TRUE, "")

\* Variant: without the test that protects RayBen445.
demoteAdminUnguarded(userId, demotedBy) ==
  IF ~isRayBen(demotedBy)
    THEN Result(FALSE, "Only RayBen445 can demote admins")
  ELSE IF Seen(demotedBy)[userId] # "admin"
    THEN Result(FALSE, "User is not an admin")
  ELSE Result(TRUE, "")

demoteAdmin(userId, demotedBy) ==
  IF ~isRayBen(demotedBy)
    THEN Result(FALSE, "Only RayBen445 can demote admins")
  ELSE IF isRayBen(userId)
    THEN Result(FALSE, "RayBen445 cannot be demoted")
  ELSE IF Seen(demotedBy)[userId] # "admin"
    THEN Result(FALSE, "User is not an admin")
  ELSE Result(TRUE, "")

\* Variant: the texts that start with '/' are handed on before the support
\* flag is looked at.
RouteCommandsFirst(flag, t) ==
  IF t[1] = "/support" THEN "supportcmd"
  ELSE IF t[1] = "/broadcast" THEN "broadcast"
  ELSE IF t[1] \in {"/help", "/promote", "/demote"} THEN "command"
  ELSE IF flag THEN "support"
  ELSE "chat"

\* The branch of the text handler a text takes, flag being the sender's
\* supportState entry.
Route(flag, t) ==
  IF flag THEN "support"
  ELSE IF t[1] = "/support" THEN "supportcmd"
  ELSE IF t[1] = "/broadcast" THEN "broadcast"
  ELSE IF t[1] \in {"/help", "/promote", "/demote"} THEN "command"
  ELSE "chat"

\* bot.command('promote') and bot.command('demote') for a numeric argument:
\* the reply and the function's result.
AdminCommand(u, t) ==
  IF ~isRayBen(u)
    THEN Result(FALSE, IF t[1] = "/promote"
                         THEN "Only RayBen445 can promote users to admin."
                         ELSE "Only RayBen445 can demote admins.")
  ELSE IF t[1] = "/promote" THEN promoteToAdmin(t[2], u)
  ELSE demoteAdmin(t[2], u)

\* saveUsers(): the file takes the users object, unless writeJson rejects.
Saved(wr, us) == IF wr THEN us ELSE file

\* One text message of user u, through bot.on('text') and, for a command,
\* the command handler after it.
HandleText(u, t, wr) ==
  LET route == Route(supportState[u], t)
      isCmd == route = "command" /\ t[1] \in {"/promote", "/demote"}
      res   == IF isCmd THEN AdminCommand(u, t) ELSE Result(FALSE, "")
      after == IF isCmd /\ res.success
                 THEN [Seen(u) EXCEPT ![t[2]] =
                         IF t[1] = "/promote" THEN "admin" ELSE "user"]
                 ELSE Seen(u)
  IN
  /\ users' = after
  /\ USER_IDS' = USER_IDS \cup {u}
  /\ file' = Saved(wr, after)
  /\ fileExists' = (fileExists \/ wr)
  /\ supportState' =
       (IF route = "support" THEN [supportState EXCEPT ![u] = FALSE]
        ELSE supportState)
  /\ outbox' =
       (CASE route \in {"support", "supportcmd"} -> getAdminIds
          [] route = "broadcast" ->
               (IF isAdmin(u) THEN USER_IDS \cup {u} ELSE {})
          [] isCmd /\ res.success -> {t[2]}
          [] OTHER -> {})
  /\ by' = u
  /\ reply' =
       (CASE route = "support" -> "Support Request Sent: admin team"
          [] route = "supportcmd" -> "Support Request Sent: team"
          [] route = "broadcast" ->
               (IF isAdmin(u) THEN "Broadcast Complete" ELSE "Access Denied")
          [] isCmd -> (IF res.success THEN t[1] ELSE res.error)
          [] route = "command" -> "command"
          [] OTHER -> "chat")
  /\ lastGrant' =
       (IF isCmd /\ res.success
          THEN <<t[2], IF t[1] = "/promote" THEN "admin" ELSE "user">>
          ELSE lastGrant)
  /\ UNCHANGED <<initPc, loaded>>

\* callback_query start_support of user u
StartSupport(u, wr) ==
  /\ users' = Seen(u)
  /\ USER_IDS' = USER_IDS \cup {u}
  /\ file' = Saved(wr, Seen(u))
  /\ fileExists' = (fileExists \/ wr)
  /\ supportState' = [supportState EXCEPT ![u] = TRUE]
  /\ outbox' = {}
  /\ by' = u
  /\ reply' = "Support mode activated"
  /\ UNCHANGED <<initPc, loaded, lastGrant>>

\* The process ends and starts again: the module-level state is new, the
\* file stays.
Restart ==
  /\ users' = NoUsers
  /\ USER_IDS' = {}
  /\ supportState' = [id \in Ids |-> FALSE]
  /\ initPc' = "boot"
  /\ loaded' = NoUsers
  /\ outbox' = {}
  /\ by' = ""
  /\ reply' = ""
  /\ UNCHANGED <<fileExists, file, lastGrant>>

\* loadUsers(), awaited by initializeAdminSystem, up to the point where
\* readJson has the content of users.json; without the file nothing is
\* assigned.
readUsersFile ==
  /\ initPc = "boot"
  /\ initPc' = (IF fileExists THEN "reading" ELSE "loaded")
  /\ loaded' = (IF fileExists THEN file ELSE NoUsers)
  /\ by' = ""
  /\ reply' = ""
  /\ outbox' = {}
  /\ UNCHANGED <<users, fileExists, file, USER_IDS, supportState, lastGrant>>

\* users = await fs.readJson(USERS_FILE): the assignment, when the promise
\* has resolved.
loadUsers ==
  /\ initPc = "reading"
  /\ users' = loaded
  /\ loaded' = NoUsers
  /\ initPc' = "loaded"
  /\ by' = ""
  /\ reply' = ""
  /\ outbox' = {}
  /\ UNCHANGED <<fileExists, file, USER_IDS, supportState, lastGrant>>

\* The rest of initializeAdminSystem: the entry of RayBen445 is created or
\* made admin, and saved if that changed it.
initializeAdminSystem(wr) ==
  /\ initPc = "loaded"
  /\ users' = [users EXCEPT ![RAYBEN_ID] = "admin"]
  /\ IF users[RAYBEN_ID] = "admin"
       THEN UNCHANGED <<file, fileExists>>
       ELSE /\ file' = Saved(wr, users')
            /\ fileExists' = (fileExists \/ wr)
  /\ initPc' = "done"
  /\ outbox' = {}
  /\ by' = ""
  /\ reply' = ""
  /\ UNCHANGED <<USER_IDS, supportState, loaded, lastGrant>>

BotInit ==
  /\ PipeInit
  /\ geminiAI = TRUE
  /\ SanOff
  /\ EscOff
  /\ ConcOff
  /\ BotOff
  /\ MoreOff

BotRest == UNCHANGED <<pipeVars, sanVars, escVars, concVars, moreVars>>

\* Messages, support and broadcast, the writes of users.json succeeding.
BotNext ==
  /\ \/ \E u \in Ids, t \in BotTexts : HandleText(u, t, TRUE)
     \/ \E u \in Ids : StartSupport(u, TRUE)
     \/ Restart
     \/ readUsersFile
     \/ loadUsers
     \/ initializeAdminSystem(TRUE)
  /\ BotRest

BotSpec == BotInit /\ [][BotNext]_vars

\* Promotion, demotion and users.json, a write of which may fail.  The
\* handlers run before readJson has read the file or after its result is
\* assigned; the updates that fall in between are those of BotNext.  1002
\* sends nothing here and stays outside the database.
AdminNext ==
  /\ \/ /\ initPc # "reading"
        /\ \E u \in {RAYBEN_ID, "1001"}, t \in AdminTexts, wr \in BOOLEAN :
             HandleText(u, t, wr)
     \/ Restart
     \/ readUsersFile
     \/ loadUsers
     \/ \E wr \in BOOLEAN : initializeAdminSystem(wr)
  /\ BotRest

AdminSpec == BotInit /\ [][AdminNext]_vars

\* ------------------------------------------------------------- stored selections and the header
\* Callback data: the prefix and what follows it.  Telegram hands back
\* whatever data the pressed button carried; nothing compares it with the
\* lists before it is stored.
RoleData ==
  {<<"role_", "Doctor">>, <<"role_", "Brain Master">>, <<"role_", "doctor">>,
   <<"role_", "role_Doctor">>, <<"role_", "">>}

LangData ==
  {<<"lang_", "fr">>, <<"lang_", "en">>, <<"lang_", "es">>,
   <<"lang_", "xx">>, <<"lang_", "[FR] French">>, <<"lang_", "">>}

\* data.replace('role_', ''), data.replace('lang_', '') for data that
\* starts with the prefix: the first occurrence is the prefix.
StripPrefix(data) == data[2]

\* callback_query, data.startsWith('role_')
LblCbRole(data) ==
  /\ data[1] = "role_"
  /\ lblRole' = StripPrefix(data)
  /\ UNCHANGED <<lblLang, hdr>>

\* callback_query, data.startsWith('lang_')
LblCbLang(data) ==
  /\ data[1] = "lang_"
  /\ lblLang' = StripPrefix(data)
  /\ UNCHANGED <<lblRole, hdr>>

\* /reset, do_reset
LblReset ==
  /\ lblRole' = ""
  /\ lblLang' = ""
  /\ UNCHANGED hdr

\* A chat text is answered: role and lang are read with their defaults and
\* the header is built from the labels, in each of the three places a reply
\* is formatted.
LblChat ==
  /\ hdr' = Header(RoleOr(lblRole), LangOr(lblLang))
  /\ UNCHANGED <<lblRole, lblLang>>

LblInit ==
  /\ PipeInit
  /\ geminiAI = TRUE
  /\ SanOff
  /\ EscOff
  /\ ConcOff
  /\ BotOff
  /\ LblOff
  /\ AnOff
  /\ SrvOff
  /\ EnvOff

LblNext ==
  /\ \/ \E data \in RoleData : LblCbRole(data)
     \/ \E data \in LangData : LblCbLang(data)
     \/ LblReset
     \/ LblChat
  /\ UNCHANGED <<pipeVars, sanVars, escVars, concVars, botVars, anVars,
                 srvVars, envVars>>

LblSpec == LblInit /\ [][LblNext]_vars

\* ------------------------------------------------------------- usage counters
\* Calls of trackCommand and trackMessage in one handler run counted.
AnMax == 4

\* Names the command handlers pass to trackCommand.
AnCommands == {"start", "help"}

\* obj[key] = value, adding the key when it is new.
Put(obj, key, value) ==
  [k \in DOMAIN obj \cup {key} |-> IF k = key THEN value ELSE obj[k]]

\* !obj[key]: no such key, or 0 under it.
Falsy(obj, key) == key \notin DOMAIN obj \/ obj[key] = 0

\* if (!analytics.userActivity[userIdStr])
\*   analytics.userActivity[userIdStr] = { commands: 0, messages: 0 }
WithUser(activity, u) ==
  IF u \notin DOMAIN activity
    THEN Put(activity, u, [commands |-> 0, messages |-> 0])
    ELSE activity

\* saveAnalytics(): writeJson serialises the object as it is at the call;
\* a failed write is logged and swallowed.
saveAnalytics(an, wr) == anFile' = IF wr THEN an ELSE anFile

\* Variant: the per-user count is left out.
trackCommandTotalsOnly(command, u, wr) ==
  LET stats == analytics.commandStats
      zeroed == IF Falsy(stats, command) THEN Put(stats, command, 0) ELSE stats
      an == [analytics EXCEPT
               !.totalCommands = @ + 1,
               !.commandStats = Put(zeroed, command, zeroed[command] + 1),
               !.userActivity = WithUser(analytics.userActivity, u)]
  IN /\ analytics.totalCommands + analytics.totalMessages < AnMax
     /\ analytics' = an
     /\ saveAnalytics(an, wr)

\* trackCommand(command, userId): every assignment precedes the one await.
trackCommand(command, u, wr) ==
  LET stats == analytics.commandStats
      zeroed == IF Falsy(stats, command) THEN Put(stats, command, 0) ELSE stats
      act == WithUser(analytics.userActivity, u)
      an == [analytics EXCEPT
               !.totalCommands = @ + 1,
               !.commandStats = Put(zeroed, command, zeroed[command] + 1),
               !.userActivity =
                  Put(act, u, [act[u] EXCEPT !.commands = @ + 1])]
  IN /\ analytics.totalCommands + analytics.totalMessages < AnMax
     /\ analytics' = an
     /\ saveAnalytics(an, wr)

\* trackMessage(userId)
trackMessage(u, wr) ==
  LET act == WithUser(analytics.userActivity, u)
      an == [analytics EXCEPT
               !.totalMessages = @ + 1,
               !.userActivity =
                  Put(act, u, [act[u] EXCEPT !.messages = @ + 1])]
  IN /\ analytics.totalCommands + analytics.totalMessages < AnMax
     /\ analytics' = an
     /\ saveAnalytics(an, wr)

AnInit ==
  /\ PipeInit
  /\ geminiAI = TRUE
  /\ SanOff
  /\ EscOff
  /\ ConcOff
  /\ BotOff
  /\ LblOff
  /\ AnOff
  /\ SrvOff
  /\ EnvOff

AnNext ==
  /\ \/ \E command \in AnCommands, u \in OtherIds, wr \in BOOLEAN :
          trackCommand(command, u, wr)
     \/ \E u \in OtherIds, wr \in BOOLEAN : trackMessage(u, wr)
  /\ UNCHANGED <<pipeVars, sanVars, escVars, concVars, botVars, lblVars,
                 srvVars, envVars>>

AnSpec == AnInit /\ [][AnNext]_vars

\* ------------------------------------------------------------- POST /chat
\* stdout data events of one model process counted.
SrvMaxData == 2

\* req.body.prompt: "" stands for every falsy value (no prompt field, "",
\* null, 0, false).
SrvPrompts == {"", "hello"}

\* What a data event carries.
SrvChunks == {SPACE, "ok", NEWLINE}

\* The code of the close event: the exit status, or null when a signal
\* ended the process.
SrvCodes == {"0", "1", "null"}

\* res.status(s).json(...)
Respond(r, httpStatus, body) ==
  srvResp' = [srvResp EXCEPT ![r] = Append(@, [status |-> httpStatus, body |-> body])]

\* app.post('/chat') up to the registration of the listeners.  spawn()
\* either starts python3 or fails to (no python3 on the PATH, no process
\* slot left); a failure is emitted as an 'error' event of the child, for
\* which no listener is registered, so it is thrown as an uncaught
\* exception and ends the Node process.
PostChat(r, given, started) ==
  /\ srvUp
  /\ srvPc[r] = "none"
  /\ IF given = ""
       THEN /\ Respond(r, 400, <<"No prompt provided.">>)
            /\ srvPc' = [srvPc EXCEPT ![r] = "refused"]
            /\ UNCHANGED srvUp
       ELSE IF started
         THEN /\ srvPc' = [srvPc EXCEPT ![r] = "running"]
              /\ UNCHANGED <<srvUp, srvResp>>
         ELSE /\ srvPc' = [srvPc EXCEPT ![r] = "lost"]
              /\ srvUp' = FALSE
              /\ UNCHANGED srvResp
  /\ UNCHANGED <<srvOut, srvCode>>

\* python.stdout.on('data'): output += data.toString()
StdoutData(r, data) ==
  /\ srvUp
  /\ srvPc[r] = "running"
  /\ Len(srvOut[r]) < SrvMaxData
  /\ srvOut' = [srvOut EXCEPT ![r] = Append(@, data)]
  /\ UNCHANGED <<srvUp, srvPc, srvCode, srvResp>>

\* python.on('close', (code) => ...)
OnClose(r, code) ==
  /\ srvUp
  /\ srvPc[r] = "running"
  /\ srvCode' = [srvCode EXCEPT ![r] = code]
  /\ srvPc' = [srvPc EXCEPT ![r] = "closed"]
  /\ IF code # "0"
       THEN Respond(r, 500, <<"Model failed.">>)
       ELSE Respond(r, 200, Trim(srvOut[r]))
  /\ UNCHANGED <<srvUp, srvOut>>

SrvInit ==
  /\ PipeInit
  /\ geminiAI = TRUE
  /\ SanOff
  /\ EscOff
  /\ ConcOff
  /\ BotOff
  /\ LblOff
  /\ AnOff
  /\ SrvOff
  /\ EnvOff

SrvNext ==
  /\ \E r \in Requests :
       \/ \E given \in SrvPrompts, started \in BOOLEAN :
            PostChat(r, given, started)
       \/ \E data \in SrvChunks : StdoutData(r, data)
       \/ \E code \in SrvCodes : OnClose(r, code)
  /\ UNCHANGED <<pipeVars, sanVars, escVars, concVars, botVars, lblVars,
                 anVars, envVars>>

SrvSpec == SrvInit /\ [][SrvNext]_vars

\* ------------------------------------------------------------- admins from the environment
\* ctx.from.username of the updates of each user; "" when none is set.
NamesOf ==
  [u \in EnvIds |->
     CASE u = "1001" -> {"alice"}
       [] u = "1002" -> {"", "bob"}
       [] OTHER -> {"carol"}]

\* Settings of ADMIN_IDS: unset, and 'abc, 1003abc'.
IdEnvs == {<<>>, << <<"abc">>, <<SPACE, "1003", "abc">> >>}

\* Settings of ADMIN_USERNAMES: unset, and ' alice , ,carol'.
UsernameEnvs == {<<>>, << <<SPACE, "alice", SPACE>>, <<SPACE>>, <<"carol">> >>}

\* Settings of GITHUB_ADMIN_MAPPING: unset, no JSON, a mapping of RayBen445.
GithubEnvs == {"", "{", "{RayBen445: 1003}"}

\* parseInt(id.trim()): the leading digits, NaN when there are none.
ParseInt(e) ==
  LET t == Trim(e)
  IN IF t # <<>> /\ Head(t) \in EnvIds THEN Head(t) ELSE "NaN"

\* JSON.parse(...)['RayBen445'], nothing when unset or when parse throws
GithubRayBen(env) == IF env = "{RayBen445: 1003}" THEN <<"1003">> ELSE <<>>

\* initializeAdmins(): the ids
InitialAdminIds(ids, github) ==
  {RAYBEN_ID}
    \cup ({ParseInt(ids[k]) : k \in DOMAIN ids} \ {"NaN"})
    \cup (IF GithubRayBen(github) # <<>>
            THEN {ParseInt(GithubRayBen(github))} ELSE {})

\* initializeAdmins(): the usernames, trimmed, the empty ones dropped
InitialAdminUsernames(names) ==
  {Trim(names[k]) : k \in DOMAIN names} \ {<<>>}

isAdminEnv(u, admins) == u \in admins

\* Variant: the username is cached and nobody is promoted.
cacheUserInfoCacheOnly(u, name) ==
  /\ USERNAME_TO_ID_CACHE' =
       IF name # "" THEN Put(USERNAME_TO_ID_CACHE, name, u)
       ELSE USERNAME_TO_ID_CACHE
  /\ UNCHANGED ADMIN_IDS

\* cacheUserInfo(ctx)
cacheUserInfo(u, name) ==
  /\ USERNAME_TO_ID_CACHE' =
       IF name # "" THEN Put(USERNAME_TO_ID_CACHE, name, u)
       ELSE USERNAME_TO_ID_CACHE
  /\ ADMIN_IDS' =
       IF name # "" /\ <<name>> \in ADMIN_USERNAMES
         THEN ADMIN_IDS \cup {u} ELSE ADMIN_IDS

knownCommands ==
  {"/start", "/role", "/lang", "/about", "/reset", "/support", "/buttons",
   "/admin", "/ping", "/help"}

\* Texts: t[1] is the first word, the rest follows a blank.
EnvTexts ==
  {<<"hello">>, <<"/admininfo">>, <<"/admin">>, <<"/ping">>,
   <<"/support", "hi">>, <<"/broadcast", "hi">>}

\* text.startsWith('/') for a text whose first word is w
StartsWithSlash(w) == w \in knownCommands \cup {"/admininfo", "/broadcast"}

\* bot.command('admininfo'): id, username, admin status, number of admins
admininfo(u, name, admins) ==
  <<"Admin System Info", u, IF name = "" THEN "No username set" ELSE name,
    isAdminEnv(u, admins), Cardinality(admins)>>

\* The bot.command handler a command passed on by next() arrives at.
CommandReply(u, name, cmd, admins) ==
  CASE cmd = "/admininfo" -> admininfo(u, name, admins)
    [] cmd = "/admin" ->
         IF isAdminEnv(u, admins) THEN <<"Admin Panel">>
         ELSE <<"Admins only.">>
    [] cmd = "/ping" -> <<"Cool Shot AI is alive!">>
    [] OTHER -> <<cmd>>

\* bot.on('text') and what it passes the update on to.
EnvText(u, name, t) ==
  /\ envUserIds' = envUserIds \cup {u}
  /\ cacheUserInfo(u, name)
  /\ IF envSupport[u]
       THEN /\ envSupport' = [envSupport EXCEPT ![u] = FALSE]
            /\ envOutbox' = {<<a, "Support query">> : a \in ADMIN_IDS'}
            /\ envReply' = <<"Your support query has been sent">>
       ELSE
         /\ UNCHANGED envSupport
         /\ IF t[1] = "/support" /\ Len(t) > 1
              THEN /\ envOutbox' =
                        {<<a, "Support request">> : a \in ADMIN_IDS'}
                   /\ envReply' = <<"Your support request has been sent">>
            ELSE IF t[1] = "/broadcast" /\ Len(t) > 1
              THEN IF ~isAdminEnv(u, ADMIN_IDS')
                     THEN envOutbox' = {} /\ envReply' = <<>>
                     ELSE /\ envOutbox' =
                               {<<v, "Admin Broadcast">> : v \in envUserIds'}
                          /\ envReply' = <<"Broadcast sent.">>
            ELSE IF StartsWithSlash(t[1]) /\ t[1] \notin knownCommands
              THEN envOutbox' = {} /\ envReply' = <<"Unknown command">>
            ELSE IF t[1] \in knownCommands
              THEN /\ envOutbox' = {}
                   /\ envReply' = CommandReply(u, name, t[1], ADMIN_IDS')
            ELSE envOutbox' = {} /\ envReply' = <<"chat">>
  /\ UNCHANGED <<envAdminIds, envAdminUsernames, envGithub, ADMIN_USERNAMES>>

\* Callback data of the quick buttons.
EnvCallbacks == {"start_support", "ping_cmd", "show_admin"}

\* bot.on('callback_query')
EnvCallback(u, name, data) ==
  /\ envUserIds' = envUserIds \cup {u}
  /\ cacheUserInfo(u, name)
  /\ envSupport' =
       IF data = "start_support" THEN [envSupport EXCEPT ![u] = TRUE]
       ELSE envSupport
  /\ envReply' =
       CASE data = "start_support" -> <<"Please type your support query">>
         [] data = "ping_cmd" -> <<"Cool Shot AI is alive!">>
         [] OTHER -> IF isAdminEnv(u, ADMIN_IDS') THEN <<"Admin Panel">>
                     ELSE <<"Admins only.">>
  /\ envOutbox' = {}
  /\ UNCHANGED <<envAdminIds, envAdminUsernames, envGithub, ADMIN_USERNAMES>>

\* The state after the module is loaded: initializeAdmins() has run.
EnvInit ==
  /\ PipeInit
  /\ geminiAI = TRUE
  /\ SanOff
  /\ EscOff
  /\ ConcOff
  /\ BotOff
  /\ LblOff
  /\ AnOff
  /\ SrvOff
  /\ envAdminIds \in IdEnvs
  /\ envAdminUsernames \in UsernameEnvs
  /\ envGithub \in GithubEnvs
  /\ ADMIN_IDS = InitialAdminIds(envAdminIds, envGithub)
  /\ ADMIN_USERNAMES = InitialAdminUsernames(envAdminUsernames)
  /\ USERNAME_TO_ID_CACHE = <<>>
  /\ envUserIds = {}
  /\ envSupport = [u \in EnvIds |-> FALSE]
  /\ envReply = <<>>
  /\ envOutbox = {}

EnvNext ==
  /\ \E u \in EnvIds :
       \E name \in NamesOf[u] :
         \/ \E t \in EnvTexts : EnvText(u, name, t)
         \/ \E data \in EnvCallbacks : EnvCallback(u, name, data)
  /\ UNCHANGED <<pipeVars, sanVars, escVars, concVars, botVars, lblVars,
                 anVars, srvVars>>

EnvSpec == EnvInit /\ [][EnvNext]_vars

\* ------------------------------------------------------------- claims, continued

\* C11 as stated: the markup escaping runs after the brand rules and after
\* the message (header, body, closing line) is composed, so the response is
\* the escaped composition of the unescaped parts.
C11_EscapedAfterComposition ==
  /\ (pc = "fallback" /\ SomePrimaryOk) =>
       response = escapeMarkdownV2(Compose(<<RoleLabel(role)>>,
                                           <<LangLabel(lang)>>, sanitized))
  /\ (pc = "final" /\ geminiKind = "ok") =>
       response = escapeMarkdownV2(Compose(<<RoleLabel(role)>>,
                                           <<LangLabel(lang)>>, sanitized))

\* C11 amended: the body is escaped after all brand rules have been applied
\* to the raw provider text and before the message is composed; the role
\* and language labels are escaped on their own; the composed message, with
\* the markup of its template, is not escaped again.  On both paths.
C11_EscapedAfterRulesBeforeComposition ==
  /\ (pc = "fallback" /\ SomePrimaryOk) =>
       /\ sanitized = SanitizePrimary(okText)
       /\ response = Compose(escapeMarkdownV2(<<RoleLabel(role)>>),
                             escapeMarkdownV2(<<LangLabel(lang)>>),
                             escapeMarkdownV2(sanitized))
  /\ (pc = "final" /\ geminiKind = "ok") =>
       /\ sanitized = GeminiSanitize(geminiText)
       /\ response = Compose(escapeMarkdownV2(<<RoleLabel(role)>>),
                             escapeMarkdownV2(<<LangLabel(lang)>>),
                             escapeMarkdownV2(sanitized))

\* A primary result in which a brand rule matched and whose sanitized text
\* has a reserved character.
C11_Witness ==
  /\ pc = "fallback"
  /\ okText = <<"I was created by", DOT>>
  /\ sanitized = Rule4Rep
  /\ Includes(response, <<"Cool Shot Systems", BACKSLASH, DOT, NEWLINE>>)

\* The text with every backslash that stands immediately before a reserved
\* character deleted, one backslash for each such character.
RECURSIVE DropInserted(_)
DropInserted(out) ==
  IF Len(out) = 0 THEN <<>>
  ELSE IF Len(out) >= 2 /\ out[1] = BACKSLASH /\ out[2] \in Reserved
       THEN <<out[2]>> \o DropInserted(SubSeq(out, 3, Len(out)))
       ELSE <<out[1]>> \o DropInserted(Tail(out))

\* C12: escapeMarkdownV2 loses no content: in its output every reserved
\* character is immediately preceded by a backslash, and deleting the
\* backslashes that precede reserved characters gives back the input.
C12_EscapeLosesNothing ==
  escPc = "escaped" =>
    /\ \A k \in 1..Len(escOut) :
         escOut[k] \in Reserved => (k > 1 /\ escOut[k - 1] = BACKSLASH)
    /\ DropInserted(escOut) = escIn

\* An input with a backslash of its own before a reserved character.
C12_Witness ==
  /\ escPc = "escaped"
  /\ escIn = <<BACKSLASH, DOT, "a">>
  /\ escOut = <<BACKSLASH, BACKSLASH, DOT, "a">>

\* C13: at most one response is sent for an incoming chat message, on
\* every path: none while the handler runs or when it ended without
\* replying, exactly one once it has replied.
C13_AtMostOneResponse ==
  /\ Len(sent) <= 1
  /\ pc = "done" => Len(sent) = 1
  /\ pc # "done" => Len(sent) = 0

\* The reply of a message for which a response was built from a primary
\* result and Gemini was called as well.
C13_Witness ==
  /\ pc = "done"
  /\ SomePrimaryOk
  /\ geminiCalls = 1
  /\ Len(sent) = 1

\* C14: chat requests of different users do not influence each other: the
\* role and language of a user's prompt and reply header are the user's own
\* selection as of the start of their request, whatever other users change,
\* reset or request in the meantime (the user's own changes aside).
C14_OwnSelectionUsed ==
  \A u \in ChatUsers :
    (reqPc[u] \in {"read", "replied"} /\ "own" \notin meanwhile[u]) =>
      /\ reqRole[u] = RoleOr(reqStart[u][1])
      /\ reqLang[u] = LangOr(reqStart[u][2])
      /\ Header(reqRole[u], reqLang[u])
           = Header(RoleOr(reqStart[u][1]), LangOr(reqStart[u][2]))

\* A has replied with their own selection although B changed theirs while
\* A's handler ran and B's own handler is in flight.
C14_Witness ==
  /\ reqPc["A"] = "replied"
  /\ meanwhile["A"] = {"other"}
  /\ reqRole["A"] = "Doctor"
  /\ reqLang["A"] = "en"
  /\ userRoles["B"] = ""
  /\ userLanguages["B"] = "fr"
  /\ reqPc["B"] = "read"

\* C15: only RayBen445 can change admin status: a /promote or /demote of
\* any other user, a promoted admin included, is answered with the refusal
\* and leaves every isAdmin flag as it was; the set of admins changes only
\* in a command of RayBen445 or while the process starts.
C15_OnlyRayBenChangesAdmins ==
  [][/\ \A u \in OtherIds : by' = u =>
        \A t \in AdminTexts, wr \in BOOLEAN :
          (t[1] \in {"/promote", "/demote"} /\ HandleText(u, t, wr)) =>
            /\ getAdminIds' = getAdminIds
            /\ reply' = (IF t[1] = "/promote"
                           THEN "Only RayBen445 can promote users to admin."
                           ELSE "Only RayBen445 can demote admins.")
     /\ getAdminIds' # getAdminIds =>
          \/ by' = RAYBEN_ID /\ reply' \in {"/promote", "/demote"}
          \/ Restart
          \/ loadUsers
          \/ \E wr \in BOOLEAN : initializeAdminSystem(wr)
    ]_vars

\* The promoted admin 1001 has sent /demote and was refused.
C15_Witness ==
  /\ by = "1001"
  /\ users["1001"] = "admin"
  /\ users[RAYBEN_ID] = "admin"
  /\ reply = "Only RayBen445 can demote admins."

\* C16: once initializeAdminSystem has completed, the users entry of
\* 6649936329 exists and has isAdmin = true, in every reachable state.
C16_RayBenStaysAdmin ==
  initPc = "done" => users[RAYBEN_ID] = "admin"

\* RayBen445 has tried to demote himself after the initialization.
C16_Witness ==
  /\ initPc = "done"
  /\ by = RAYBEN_ID
  /\ reply = "RayBen445 cannot be demoted"

C18_BroadcastReachesRegistered ==
  reply = "Broadcast Complete" =>
    {id \in Ids : users[id] # "absent"} \subseteq outbox

\* C19 as stated: a promotion or demotion that returned success has been
\* written to users.json, and once the process has started again the
\* target's isAdmin is what the last successful promotion or demotion made
\* it.
C19_AdminStatusPersists ==
  /\ reply \in {"/promote", "/demote"} =>
       (fileExists /\ file[lastGrant[1]] = lastGrant[2])
  /\ (initPc = "done" /\ lastGrant[1] # "") =>
       users[lastGrant[1]] = lastGrant[2]

C27_RuleReplacesSentence ==
  sanChain = "primary" =>
    /\ \A k \in 1..Len(sanIn) : Rule4End(sanIn, k) = LegacyRule4End(sanIn, k)
    /\ (/\ sanPc = "once"
        /\ Len(sanIn) = 3
        /\ sanIn[1] = "I was created by"
        /\ sanIn[2] \in {"n", "Acme"}
        /\ sanIn[3] = DOT) => sanOnce = Rule4Rep

\* The steps the handler has left at most: one per endpoint not yet called,
\* the Gemini call, the reply.
StepsLeft ==
  CASE pc = "primary" -> (NumAPIs - i) + 3
    [] pc = "fallback" -> 2
    [] pc = "final" -> 1
    [] OTHER -> 0

InChat == pc \in {"primary", "fallback", "final"}

\* C24: handling one chat message terminates: each primary endpoint is
\* called at most once and in list order, Gemini at most once, and as every
\* call returns or fails the handler goes on, in a bounded number of steps,
\* to send its reply.
C24_HandlerTerminates ==
  /\ [](geminiCalls <= 1)
  /\ [](pc = "primary" => i \in 1..NumAPIs)
  /\ [][(pc = "primary" /\ status' # status) =>
          /\ status[i] = "notcalled"
          /\ \A k \in 1..NumAPIs :
               /\ k < i => status[k] = "failed"
               /\ k > i => status[k] = "notcalled"
               /\ k # i => status'[k] = status[k]]_vars
  /\ [](InChat =>
          ENABLED (\/ \E kind \in PrimaryKinds, t \in PrimaryTexts \cup {<<>>} :
                        CallPrimary(kind, t)
                   \/ \E kind \in {"throw", "text"}, t \in GeminiTexts :
                        CallGemini(kind, t)
                   \/ Finish))
  /\ [][InChat => (StepsLeft' < StepsLeft /\ StepsLeft' >= 0
                   /\ pc' # "threw")]_vars
  /\ []((pc = "done") => Len(sent) = 1)

\* All five endpoints and Gemini were called and the reply is sent.
C24_Witness ==
  /\ pc = "done"
  /\ status[NumAPIs] = "ok"
  /\ \A k \in 1..(NumAPIs - 1) : status[k] = "failed"
  /\ geminiCalls = 1
  /\ geminiKind = "throw"
  /\ Len(sent) = 1

\* C25: a /reset or do_reset of a user deletes that user's role and
\* language entries, whatever they were, and nobody else's; the entries
\* stay deleted until the user selects again; and a chat request of the
\* user that reads them meanwhile uses 'Brain Master' and 'en'.
C25_ResetRestoresDefaults ==
  [][\A u \in ChatUsers :
       /\ ResetSettings(u) =>
            /\ userRoles'[u] = "" /\ userLanguages'[u] = ""
            /\ \A v \in ChatUsers \ {u} :
                 /\ userRoles'[v] = userRoles[v]
                 /\ userLanguages'[v] = userLanguages[v]
       /\ (userRoles[u] = "" /\ userRoles'[u] # "") =>
            \E r \in RoleChoices : CbRole(u, r)
       /\ (userLanguages[u] = "" /\ userLanguages'[u] # "") =>
            \E l \in LangChoices : CbLang(u, l)
       /\ (ChatRead(u) /\ userRoles[u] = "" /\ userLanguages[u] = "") =>
            (reqRole'[u] = "Brain Master" /\ reqLang'[u] = "en")
    ]_vars

\* A had chosen Doctor and French and has reset them while their message
\* was being handled; the handler read the defaults; B's choices stand.
C25_Witness ==
  /\ reqStart["A"] = <<"Doctor", "fr">>
  /\ userRoles["A"] = "" /\ userLanguages["A"] = ""
  /\ reqPc["A"] = "read"
  /\ reqRole["A"] = "Brain Master" /\ reqLang["A"] = "en"
  /\ userRoles["B"] = "Doctor" /\ userLanguages["B"] = "fr"

\* C26: promoteToAdmin and demoteAdmin, called for RayBen445, answer each
\* error case with its {success: false, error} value and leave the users
\* map as it was: promoting an id that is not in the database or is an
\* admin already, demoting RayBen445, demoting an id that is absent or no
\* admin; on success the target's isAdmin flag is the one thing that
\* changes.
C26_ErrorsLeaveUsersUnchanged ==
  [][by' = RAYBEN_ID => \A id \in Ids, wr \in BOOLEAN :
       LET was == Seen(RAYBEN_ID) IN
       /\ HandleText(RAYBEN_ID, <<"/promote", id>>, wr) =>
            CASE was[id] = "absent" ->
                   reply' = "User not found in database" /\ users' = was
              [] was[id] = "admin" ->
                   reply' = "User is already an admin" /\ users' = was
              [] OTHER ->
                   /\ reply' = "/promote"
                   /\ users' = [was EXCEPT ![id] = "admin"]
       /\ HandleText(RAYBEN_ID, <<"/demote", id>>, wr) =>
            CASE id = RAYBEN_ID ->
                   reply' = "RayBen445 cannot be demoted" /\ users' = was
              [] was[id] # "admin" ->
                   reply' = "User is not an admin" /\ users' = was
              [] OTHER ->
                   /\ reply' = "/demote"
                   /\ users' = [was EXCEPT ![id] = "user"]
    ]_vars

\* RayBen445 has tried to promote 1001, an admin already, while 1002 is
\* not in the database.
C26_Witness ==
  /\ by = RAYBEN_ID
  /\ reply = "User is already an admin"
  /\ users["1001"] = "admin"
  /\ users["1002"] = "absent"

\* C21: with admins configured through the environment, an update (a text
\* or a callback) of a user whose username is in ADMIN_USERNAMES leaves the
\* user's id in ADMIN_IDS; an id in ADMIN_IDS stays there; and an id is in
\* ADMIN_IDS only if the configuration names it or its user has sent an
\* update under a listed username.
C21_ListedUsernameBecomesAdmin ==
  /\ [][\A u \in EnvIds : \A name \in NamesOf[u] :
          (/\ <<name>> \in ADMIN_USERNAMES
           /\ \/ \E t \in EnvTexts : EnvText(u, name, t)
              \/ \E data \in EnvCallbacks : EnvCallback(u, name, data))
            => u \in ADMIN_IDS']_vars
  /\ [][ADMIN_IDS \subseteq ADMIN_IDS']_vars
  /\ [](\A u \in ADMIN_IDS :
          \/ u \in InitialAdminIds(envAdminIds, envGithub)
          \/ \E name \in DOMAIN USERNAME_TO_ID_CACHE :
               /\ <<name>> \in ADMIN_USERNAMES
               /\ name \in NamesOf[u])

\* 1001, whom the configuration knows as alice only, is an admin after an
\* update; 1002 has sent updates as bob and is none.
C21_Witness ==
  /\ "1001" \in ADMIN_IDS
  /\ "1001" \notin InitialAdminIds(envAdminIds, envGithub)
  /\ <<"alice">> \in ADMIN_USERNAMES
  /\ "bob" \in DOMAIN USERNAME_TO_ID_CACHE
  /\ "1002" \in envUserIds
  /\ "1002" \notin ADMIN_IDS

\* C22 as stated: with admins configured through the environment, the text
\* /admininfo is passed on by the text middleware and answered by the
\* admininfo handler with the sender's id, username, admin status and the
\* number of admins.
C22_AdminInfoAnswered ==
  [][\A u \in EnvIds : \A name \in NamesOf[u] :
       EnvText(u, name, <<"/admininfo">>) =>
         envReply' = admininfo(u, name, ADMIN_IDS')]_vars

\* C23 as stated: every POST /chat request gets exactly one response: 400,
\* and no model process, for a missing or empty prompt; otherwise, at the
\* close of the model process, 500 for a code other than 0 and 200 with the
\* trimmed output for 0.
C23_ExactlyOneResponse ==
  \A r \in Requests :
    /\ Len(srvResp[r]) <= 1
    /\ srvPc[r] \notin {"none", "running"} => Len(srvResp[r]) = 1
    /\ srvPc[r] = "refused" =>
         srvResp[r][1].status = 400 /\ srvOut[r] = <<>> /\ srvCode[r] = ""
    /\ srvPc[r] = "closed" =>
         srvResp[r][1] =
           IF srvCode[r] = "0"
             THEN [status |-> 200, body |-> Trim(srvOut[r])]
             ELSE [status |-> 500, body |-> <<"Model failed.">>]

\* The sum of field(obj[k]) over the keys of obj.
RECURSIVE SumOf(_, _, _)
SumOf(obj, keys, field) ==
  IF keys = {} THEN 0
  ELSE LET k == CHOOSE k \in keys : TRUE
           v == IF field = "" THEN obj[k] ELSE obj[k][field]
       IN v + SumOf(obj, keys \ {k}, field)

\* C28: from empty analytics and after any calls of trackCommand and
\* trackMessage, totalCommands is the sum of commandStats over the commands
\* and the sum of commands over the users, and totalMessages is the sum of
\* messages over the users.
C28_TotalsAreSums ==
  LET stats == analytics.commandStats
      act == analytics.userActivity
  IN /\ analytics.totalCommands = SumOf(stats, DOMAIN stats, "")
     /\ analytics.totalCommands = SumOf(act, DOMAIN act, "commands")
     /\ analytics.totalMessages = SumOf(act, DOMAIN act, "messages")

\* Both users have sent a command and one of them a message as well.
C28_Witness ==
  /\ analytics.totalCommands = 2
  /\ analytics.totalMessages = 1
  /\ DOMAIN analytics.userActivity = OtherIds
  /\ DOMAIN analytics.commandStats = AnCommands
  /\ \E u \in OtherIds : analytics.userActivity[u] = [commands |-> 1, messages |-> 1]

\* C29: whatever role and language code are stored for the sender, the
\* header of a reply carries a role of the roles list and a label of the
\* languages list: the stored role and the label of the stored code when
\* they are in the lists, 'Brain Master' and English otherwise.
C29_HeaderLabelsConfigured ==
  [][LblChat =>
       \E r \in roles, c \in DOMAIN languages :
         /\ hdr' = HeaderOf(escapeMarkdownV2(<<r>>),
                            escapeMarkdownV2(<<languages[c]>>))
         /\ r = (IF lblRole \in roles THEN lblRole ELSE "Brain Master")
         /\ c = (IF lblLang \in DOMAIN languages THEN lblLang ELSE "en")
    ]_vars

\* A role and a language code outside the lists are stored and a reply
\* went out under the default labels.
C29_Witness ==
  /\ lblRole = "role_Doctor"
  /\ lblLang = "[FR] French"
  /\ hdr = HeaderOf(escapeMarkdownV2(<<"Brain Master">>),
                    escapeMarkdownV2(<<"[GB] English">>))

\* C30 as stated: an entry updateUserInfo has put into the users map stays
\* there for the rest of the process, also when the registration falls
\* into the startup load.
C30_RegisteredStays ==
  [][Restart \/ \A id \in Ids : users[id] # "absent" => users'[id] # "absent"
    ]_vars

====
